---- MODULE Spec2Model ----
(***************************************************************************)
(* Model of bc/monitoring/block_drift/block_drift_exporter.py: a block     *)
(* drift Prometheus exporter.  The registry CHAIN_CONFIGS, the fetcher     *)
(* fetch_block_height, the calculator calculate_metrics, the Flask handler *)
(* metrics and the start-up code main are translated from the source.      *)
(*                                                                         *)
(* Python values are encoded as follows.                                   *)
(*   Optional[int]  : [is_none, v, huge]: None, Some(n), or an integer too  *)
(*                    long for int-to-str conversion (see HugeInt)         *)
(*   str to decode  : a sequence of one-character strings; a module can     *)
(*                    hold the characters up to U+00FF                     *)
(*   text produced  : a TLA+ string built with \o and ToString             *)
(*   an upstream    : a Reply record, the outcome of one requests.post     *)
(***************************************************************************)
EXTENDS Integers, Sequences, FiniteSets, TLC

\* Bounds of the model (not program constants).
MaxLen == 5
MaxRequests == 2

(***************************************************************************)
(* Chain registry, block_drift_exporter.py:19-74.                          *)
(***************************************************************************)
SolBody == [jsonrpc |-> "2.0", id |-> 1, method |-> "getBlockHeight"]

EvmBody == [jsonrpc |-> "2.0", id |-> 1, method |-> "eth_blockNumber", params |-> <<>>]

DEFAULT_CHAIN_CONFIGS ==
    [c \in {"sol", "eth", "bsc", "base", "sonic", "bera", "story", "pulse", "avalanchego"} |->
       CASE c = "sol" ->
              [local |-> "http://127.0.0.1:8899",
               remote |-> "https://api.mainnet-beta.solana.com",
               is_hex |-> FALSE, jsonrpc_body |-> SolBody]
         [] c = "eth" ->
              [local |-> "http://127.0.0.1:8545",
               remote |-> "https://ethereum.llamarpc.com",
               is_hex |-> TRUE, jsonrpc_body |-> EvmBody]
         [] c = "bsc" ->
              [local |-> "http://127.0.0.1:8545",
               remote |-> "https://bsc-dataseed1.binance.org/",
               is_hex |-> TRUE, jsonrpc_body |-> EvmBody]
         [] c = "base" ->
              [local |-> "http://127.0.0.1:8545",
               remote |-> "https://mainnet.base.org",
               is_hex |-> TRUE, jsonrpc_body |-> EvmBody]
         [] c = "sonic" ->
              [local |-> "http://127.0.0.1:18545",
               remote |-> "https://sonic-rpc.publicnode.com:443",
               is_hex |-> TRUE, jsonrpc_body |-> EvmBody]
         [] c = "bera" ->
              [local |-> "http://127.0.0.1:8545",
               remote |-> "https://berachain-rpc.publicnode.com",
               is_hex |-> TRUE, jsonrpc_body |-> EvmBody]
         [] c = "story" ->
              [local |-> "http://127.0.0.1:8545",
               remote |-> "https://mainnet.storyrpc.io",
               is_hex |-> TRUE, jsonrpc_body |-> EvmBody]
         [] c = "pulse" ->
              [local |-> "http://127.0.0.1:8545",
               remote |-> "https://pulsechain-rpc.publicnode.com",
               is_hex |-> TRUE, jsonrpc_body |-> EvmBody]
         [] c = "avalanchego" ->
              [local |-> "http://127.0.0.1:8545/ext/bc/C/rpc",
               remote |-> "https://avalanche.therpc.io",
               is_hex |-> TRUE, jsonrpc_body |-> EvmBody]]

(***************************************************************************)
(* Python values.                                                          *)
(***************************************************************************)
None == [is_none |-> TRUE, v |-> 0, huge |-> 0]

Some(n) == [is_none |-> FALSE, v |-> n, huge |-> 0]

\* Python integers are unbounded, but str() of one with more than 4300
\* decimal digits raises ValueError (sys.get_int_max_str_digits()), while
\* int(s, 16) decodes any number of digits.  An integer is held as
\* huge * H + v, where H = 16^3600 - 1 (4335 decimal digits) is the value of
\* "0x" followed by 3600 "f", and v is small.
HugeInt == [is_none |-> FALSE, v |-> 0, huge |-> 1]

\* remote_block - local_block, line 96.
Minus(a, b) == [is_none |-> FALSE, v |-> a.v - b.v, huge |-> a.huge - b.huge]

\* The number of decimal digits of n >= 0.
RECURSIVE DecimalDigits(_)
DecimalDigits(n) == IF n < 10 THEN 1 ELSE 1 + DecimalDigits(n \div 10)

\* f"{n}" raises for n of more than 4300 digits, the sign not counted.
TooLongForStr(n) ==
    n.huge # 0 \/ DecimalDigits(IF n.v < 0 THEN 0 - n.v ELSE n.v) > 4300

\* An option of argparse that was not given on the command line (default None).
NotGiven == [given |-> FALSE, s |-> ""]

Given(s) == [given |-> TRUE, s |-> s]

\* Truthiness of an optional str: None and "" are falsy.
Truthy(opt) == opt.given /\ opt.s # ""

(***************************************************************************)
(* int(x, 16) and int(x) on a str, as CPython's PyLong_FromString does it: *)
(* surrounding whitespace is stripped, one sign is allowed, base 16 allows *)
(* a 0x/0X prefix (and one underscore after it), digits may be separated   *)
(* by single underscores, and at least one digit is required.              *)
(* int() first turns every Unicode space into " " and every decimal digit  *)
(* of any script into its ASCII digit (PyLong_FromUnicodeObject), then     *)
(* parses.  A text of more than 4300 digits is refused in a base that is   *)
(* not a power of two.  U+0000 and the characters above U+00FF are each    *)
(* the one sequence element that spells the Python escape, "\\x00",        *)
(* "\\u0663" or "\\U0001d7ce"; the printable ones among them are spelled   *)
(* so in messages as well.                                                 *)
(***************************************************************************)
\* The characters int() strips: space, \t, \n, \r, form feed, and, written
\* raw, vertical tab (0x0b), NEL (U+0085) and NBSP (U+00A0); then the Unicode
\* spaces above U+00FF.
IsSpace(c) ==
    \/ c \in {" ", "\t", "\n", "\r", "\f", "", "", " "}
    \/ c \in {"\\u1680", "\\u2000", "\\u2001", "\\u2002", "\\u2003",
              "\\u2004", "\\u2005", "\\u2006", "\\u2007", "\\u2008",
              "\\u2009", "\\u200a", "\\u2028", "\\u2029", "\\u202f",
              "\\u205f", "\\u3000"}

\* The decimal digits of Unicode other than 0-9: the digits of value 0 of
\* every script, then the digits of value 1, and so on up to 9.
UnicodeDecimalDigits ==
    <<
      {"\\u0660", "\\u06f0", "\\u07c0", "\\u0966", "\\u09e6", "\\u0a66",
       "\\u0ae6", "\\u0b66", "\\u0be6", "\\u0c66", "\\u0ce6", "\\u0d66",
       "\\u0de6", "\\u0e50", "\\u0ed0", "\\u0f20", "\\u1040", "\\u1090",
       "\\u17e0", "\\u1810", "\\u1946", "\\u19d0", "\\u1a80", "\\u1a90",
       "\\u1b50", "\\u1bb0", "\\u1c40", "\\u1c50", "\\ua620", "\\ua8d0",
       "\\ua900", "\\ua9d0", "\\ua9f0", "\\uaa50", "\\uabf0", "\\uff10",
       "\\U000104a0", "\\U00010d30", "\\U00011066", "\\U000110f0",
       "\\U00011136", "\\U000111d0", "\\U000112f0", "\\U00011450",
       "\\U000114d0", "\\U00011650", "\\U000116c0", "\\U00011730",
       "\\U000118e0", "\\U00011950", "\\U00011c50", "\\U00011d50",
       "\\U00011da0", "\\U00016a60", "\\U00016ac0", "\\U00016b50",
       "\\U0001d7ce", "\\U0001d7d8", "\\U0001d7e2", "\\U0001d7ec",
       "\\U0001d7f6", "\\U0001e140", "\\U0001e2f0", "\\U0001e950",
       "\\U0001fbf0"},
      {"\\u0661", "\\u06f1", "\\u07c1", "\\u0967", "\\u09e7", "\\u0a67",
       "\\u0ae7", "\\u0b67", "\\u0be7", "\\u0c67", "\\u0ce7", "\\u0d67",
       "\\u0de7", "\\u0e51", "\\u0ed1", "\\u0f21", "\\u1041", "\\u1091",
       "\\u17e1", "\\u1811", "\\u1947", "\\u19d1", "\\u1a81", "\\u1a91",
       "\\u1b51", "\\u1bb1", "\\u1c41", "\\u1c51", "\\ua621", "\\ua8d1",
       "\\ua901", "\\ua9d1", "\\ua9f1", "\\uaa51", "\\uabf1", "\\uff11",
       "\\U000104a1", "\\U00010d31", "\\U00011067", "\\U000110f1",
       "\\U00011137", "\\U000111d1", "\\U000112f1", "\\U00011451",
       "\\U000114d1", "\\U00011651", "\\U000116c1", "\\U00011731",
       "\\U000118e1", "\\U00011951", "\\U00011c51", "\\U00011d51",
       "\\U00011da1", "\\U00016a61", "\\U00016ac1", "\\U00016b51",
       "\\U0001d7cf", "\\U0001d7d9", "\\U0001d7e3", "\\U0001d7ed",
       "\\U0001d7f7", "\\U0001e141", "\\U0001e2f1", "\\U0001e951",
       "\\U0001fbf1"},
      {"\\u0662", "\\u06f2", "\\u07c2", "\\u0968", "\\u09e8", "\\u0a68",
       "\\u0ae8", "\\u0b68", "\\u0be8", "\\u0c68", "\\u0ce8", "\\u0d68",
       "\\u0de8", "\\u0e52", "\\u0ed2", "\\u0f22", "\\u1042", "\\u1092",
       "\\u17e2", "\\u1812", "\\u1948", "\\u19d2", "\\u1a82", "\\u1a92",
       "\\u1b52", "\\u1bb2", "\\u1c42", "\\u1c52", "\\ua622", "\\ua8d2",
       "\\ua902", "\\ua9d2", "\\ua9f2", "\\uaa52", "\\uabf2", "\\uff12",
       "\\U000104a2", "\\U00010d32", "\\U00011068", "\\U000110f2",
       "\\U00011138", "\\U000111d2", "\\U000112f2", "\\U00011452",
       "\\U000114d2", "\\U00011652", "\\U000116c2", "\\U00011732",
       "\\U000118e2", "\\U00011952", "\\U00011c52", "\\U00011d52",
       "\\U00011da2", "\\U00016a62", "\\U00016ac2", "\\U00016b52",
       "\\U0001d7d0", "\\U0001d7da", "\\U0001d7e4", "\\U0001d7ee",
       "\\U0001d7f8", "\\U0001e142", "\\U0001e2f2", "\\U0001e952",
       "\\U0001fbf2"},
      {"\\u0663", "\\u06f3", "\\u07c3", "\\u0969", "\\u09e9", "\\u0a69",
       "\\u0ae9", "\\u0b69", "\\u0be9", "\\u0c69", "\\u0ce9", "\\u0d69",
       "\\u0de9", "\\u0e53", "\\u0ed3", "\\u0f23", "\\u1043", "\\u1093",
       "\\u17e3", "\\u1813", "\\u1949", "\\u19d3", "\\u1a83", "\\u1a93",
       "\\u1b53", "\\u1bb3", "\\u1c43", "\\u1c53", "\\ua623", "\\ua8d3",
       "\\ua903", "\\ua9d3", "\\ua9f3", "\\uaa53", "\\uabf3", "\\uff13",
       "\\U000104a3", "\\U00010d33", "\\U00011069", "\\U000110f3",
       "\\U00011139", "\\U000111d3", "\\U000112f3", "\\U00011453",
       "\\U000114d3", "\\U00011653", "\\U000116c3", "\\U00011733",
       "\\U000118e3", "\\U00011953", "\\U00011c53", "\\U00011d53",
       "\\U00011da3", "\\U00016a63", "\\U00016ac3", "\\U00016b53",
       "\\U0001d7d1", "\\U0001d7db", "\\U0001d7e5", "\\U0001d7ef",
       "\\U0001d7f9", "\\U0001e143", "\\U0001e2f3", "\\U0001e953",
       "\\U0001fbf3"},
      {"\\u0664", "\\u06f4", "\\u07c4", "\\u096a", "\\u09ea", "\\u0a6a",
       "\\u0aea", "\\u0b6a", "\\u0bea", "\\u0c6a", "\\u0cea", "\\u0d6a",
       "\\u0dea", "\\u0e54", "\\u0ed4", "\\u0f24", "\\u1044", "\\u1094",
       "\\u17e4", "\\u1814", "\\u194a", "\\u19d4", "\\u1a84", "\\u1a94",
       "\\u1b54", "\\u1bb4", "\\u1c44", "\\u1c54", "\\ua624", "\\ua8d4",
       "\\ua904", "\\ua9d4", "\\ua9f4", "\\uaa54", "\\uabf4", "\\uff14",
       "\\U000104a4", "\\U00010d34", "\\U0001106a", "\\U000110f4",
       "\\U0001113a", "\\U000111d4", "\\U000112f4", "\\U00011454",
       "\\U000114d4", "\\U00011654", "\\U000116c4", "\\U00011734",
       "\\U000118e4", "\\U00011954", "\\U00011c54", "\\U00011d54",
       "\\U00011da4", "\\U00016a64", "\\U00016ac4", "\\U00016b54",
       "\\U0001d7d2", "\\U0001d7dc", "\\U0001d7e6", "\\U0001d7f0",
       "\\U0001d7fa", "\\U0001e144", "\\U0001e2f4", "\\U0001e954",
       "\\U0001fbf4"},
      {"\\u0665", "\\u06f5", "\\u07c5", "\\u096b", "\\u09eb", "\\u0a6b",
       "\\u0aeb", "\\u0b6b", "\\u0beb", "\\u0c6b", "\\u0ceb", "\\u0d6b",
       "\\u0deb", "\\u0e55", "\\u0ed5", "\\u0f25", "\\u1045", "\\u1095",
       "\\u17e5", "\\u1815", "\\u194b", "\\u19d5", "\\u1a85", "\\u1a95",
       "\\u1b55", "\\u1bb5", "\\u1c45", "\\u1c55", "\\ua625", "\\ua8d5",
       "\\ua905", "\\ua9d5", "\\ua9f5", "\\uaa55", "\\uabf5", "\\uff15",
       "\\U000104a5", "\\U00010d35", "\\U0001106b", "\\U000110f5",
       "\\U0001113b", "\\U000111d5", "\\U000112f5", "\\U00011455",
       "\\U000114d5", "\\U00011655", "\\U000116c5", "\\U00011735",
       "\\U000118e5", "\\U00011955", "\\U00011c55", "\\U00011d55",
       "\\U00011da5", "\\U00016a65", "\\U00016ac5", "\\U00016b55",
       "\\U0001d7d3", "\\U0001d7dd", "\\U0001d7e7", "\\U0001d7f1",
       "\\U0001d7fb", "\\U0001e145", "\\U0001e2f5", "\\U0001e955",
       "\\U0001fbf5"},
      {"\\u0666", "\\u06f6", "\\u07c6", "\\u096c", "\\u09ec", "\\u0a6c",
       "\\u0aec", "\\u0b6c", "\\u0bec", "\\u0c6c", "\\u0cec", "\\u0d6c",
       "\\u0dec", "\\u0e56", "\\u0ed6", "\\u0f26", "\\u1046", "\\u1096",
       "\\u17e6", "\\u1816", "\\u194c", "\\u19d6", "\\u1a86", "\\u1a96",
       "\\u1b56", "\\u1bb6", "\\u1c46", "\\u1c56", "\\ua626", "\\ua8d6",
       "\\ua906", "\\ua9d6", "\\ua9f6", "\\uaa56", "\\uabf6", "\\uff16",
       "\\U000104a6", "\\U00010d36", "\\U0001106c", "\\U000110f6",
       "\\U0001113c", "\\U000111d6", "\\U000112f6", "\\U00011456",
       "\\U000114d6", "\\U00011656", "\\U000116c6", "\\U00011736",
       "\\U000118e6", "\\U00011956", "\\U00011c56", "\\U00011d56",
       "\\U00011da6", "\\U00016a66", "\\U00016ac6", "\\U00016b56",
       "\\U0001d7d4", "\\U0001d7de", "\\U0001d7e8", "\\U0001d7f2",
       "\\U0001d7fc", "\\U0001e146", "\\U0001e2f6", "\\U0001e956",
       "\\U0001fbf6"},
      {"\\u0667", "\\u06f7", "\\u07c7", "\\u096d", "\\u09ed", "\\u0a6d",
       "\\u0aed", "\\u0b6d", "\\u0bed", "\\u0c6d", "\\u0ced", "\\u0d6d",
       "\\u0ded", "\\u0e57", "\\u0ed7", "\\u0f27", "\\u1047", "\\u1097",
       "\\u17e7", "\\u1817", "\\u194d", "\\u19d7", "\\u1a87", "\\u1a97",
       "\\u1b57", "\\u1bb7", "\\u1c47", "\\u1c57", "\\ua627", "\\ua8d7",
       "\\ua907", "\\ua9d7", "\\ua9f7", "\\uaa57", "\\uabf7", "\\uff17",
       "\\U000104a7", "\\U00010d37", "\\U0001106d", "\\U000110f7",
       "\\U0001113d", "\\U000111d7", "\\U000112f7", "\\U00011457",
       "\\U000114d7", "\\U00011657", "\\U000116c7", "\\U00011737",
       "\\U000118e7", "\\U00011957", "\\U00011c57", "\\U00011d57",
       "\\U00011da7", "\\U00016a67", "\\U00016ac7", "\\U00016b57",
       "\\U0001d7d5", "\\U0001d7df", "\\U0001d7e9", "\\U0001d7f3",
       "\\U0001d7fd", "\\U0001e147", "\\U0001e2f7", "\\U0001e957",
       "\\U0001fbf7"},
      {"\\u0668", "\\u06f8", "\\u07c8", "\\u096e", "\\u09ee", "\\u0a6e",
       "\\u0aee", "\\u0b6e", "\\u0bee", "\\u0c6e", "\\u0cee", "\\u0d6e",
       "\\u0dee", "\\u0e58", "\\u0ed8", "\\u0f28", "\\u1048", "\\u1098",
       "\\u17e8", "\\u1818", "\\u194e", "\\u19d8", "\\u1a88", "\\u1a98",
       "\\u1b58", "\\u1bb8", "\\u1c48", "\\u1c58", "\\ua628", "\\ua8d8",
       "\\ua908", "\\ua9d8", "\\ua9f8", "\\uaa58", "\\uabf8", "\\uff18",
       "\\U000104a8", "\\U00010d38", "\\U0001106e", "\\U000110f8",
       "\\U0001113e", "\\U000111d8", "\\U000112f8", "\\U00011458",
       "\\U000114d8", "\\U00011658", "\\U000116c8", "\\U00011738",
       "\\U000118e8", "\\U00011958", "\\U00011c58", "\\U00011d58",
       "\\U00011da8", "\\U00016a68", "\\U00016ac8", "\\U00016b58",
       "\\U0001d7d6", "\\U0001d7e0", "\\U0001d7ea", "\\U0001d7f4",
       "\\U0001d7fe", "\\U0001e148", "\\U0001e2f8", "\\U0001e958",
       "\\U0001fbf8"},
      {"\\u0669", "\\u06f9", "\\u07c9", "\\u096f", "\\u09ef", "\\u0a6f",
       "\\u0aef", "\\u0b6f", "\\u0bef", "\\u0c6f", "\\u0cef", "\\u0d6f",
       "\\u0def", "\\u0e59", "\\u0ed9", "\\u0f29", "\\u1049", "\\u1099",
       "\\u17e9", "\\u1819", "\\u194f", "\\u19d9", "\\u1a89", "\\u1a99",
       "\\u1b59", "\\u1bb9", "\\u1c49", "\\u1c59", "\\ua629", "\\ua8d9",
       "\\ua909", "\\ua9d9", "\\ua9f9", "\\uaa59", "\\uabf9", "\\uff19",
       "\\U000104a9", "\\U00010d39", "\\U0001106f", "\\U000110f9",
       "\\U0001113f", "\\U000111d9", "\\U000112f9", "\\U00011459",
       "\\U000114d9", "\\U00011659", "\\U000116c9", "\\U00011739",
       "\\U000118e9", "\\U00011959", "\\U00011c59", "\\U00011d59",
       "\\U00011da9", "\\U00016a69", "\\U00016ac9", "\\U00016b59",
       "\\U0001d7d7", "\\U0001d7e1", "\\U0001d7eb", "\\U0001d7f5",
       "\\U0001d7ff", "\\U0001e149", "\\U0001e2f9", "\\U0001e959",
       "\\U0001fbf9"}
    >>

DigitValue(c) ==
    CASE c = "0" -> 0 [] c = "1" -> 1 [] c = "2" -> 2 [] c = "3" -> 3
      [] c = "4" -> 4 [] c = "5" -> 5 [] c = "6" -> 6 [] c = "7" -> 7
      [] c = "8" -> 8 [] c = "9" -> 9
      [] c \in {"a", "A"} -> 10 [] c \in {"b", "B"} -> 11
      [] c \in {"c", "C"} -> 12 [] c \in {"d", "D"} -> 13
      [] c \in {"e", "E"} -> 14 [] c \in {"f", "F"} -> 15
      [] OTHER -> 99

\* The text from its first character that is no space on.
LStrip(s) ==
    IF \A i \in 1 .. Len(s) : IsSpace(s[i]) THEN <<>>
    ELSE SubSeq(s, CHOOSE i \in 1 .. Len(s) :
                      ~IsSpace(s[i]) /\ \A j \in 1 .. i - 1 : IsSpace(s[j]),
                Len(s))

\* The text up to its last character that is no space.
RStrip(s) ==
    IF \A i \in 1 .. Len(s) : IsSpace(s[i]) THEN <<>>
    ELSE SubSeq(s, 1, CHOOSE i \in 1 .. Len(s) :
                         ~IsSpace(s[i]) /\ \A j \in i + 1 .. Len(s) : IsSpace(s[j]))

Strip(s) == RStrip(LStrip(s))

\* The outcomes of the parse: the value v, ValueError "invalid literal"
\* (digits = 0), or ValueError "Exceeds the limit" for a text of that many
\* digits.
IntValue(v) == [ok |-> TRUE, v |-> v, digits |-> 0]

Invalid == [ok |-> FALSE, v |-> 0, digits |-> 0]

TooManyDigits(n) == [ok |-> FALSE, v |-> 0, digits |-> n]

\* The value of a text of digits and single underscores: acc is the value so
\* far, prev the previous character ("" at the start), n the number of
\* digits seen.
RECURSIVE ScanDigits(_, _, _, _, _)
ScanDigits(s, base, acc, prev, n) ==
    IF s = <<>>
    THEN IF n > 0 /\ prev # "_" THEN IntValue(acc) ELSE Invalid
    ELSE IF Head(s) = "_"
         THEN IF prev = "_"
              THEN Invalid
              ELSE ScanDigits(Tail(s), base, acc, "_", n)
         ELSE IF DigitValue(Head(s)) < base
              THEN ScanDigits(Tail(s), base, acc * base + DigitValue(Head(s)), Head(s), n + 1)
              ELSE Invalid

\* The digit loop stops at the first character that is neither a digit of
\* the base nor an underscore: the number of characters before it.
DigitRun(d, base) ==
    LET stop == {i \in 1 .. Len(d) : d[i] # "_" /\ DigitValue(d[i]) >= base}
    IN  IF stop = {} THEN Len(d)
        ELSE (CHOOSE i \in stop : \A j \in stop : i <= j) - 1

\* Two underscores in a row among the first run characters, or an
\* underscore at their end.
BadUnderscore(d, run) ==
    \/ \E i \in 1 .. run - 1 : d[i] = "_" /\ d[i + 1] = "_"
    \/ run > 0 /\ d[run] = "_"

CountDigits(d, run) == Cardinality({i \in 1 .. run : d[i] # "_"})

\* Bases 2, 4, 8, 16 and 32 have no limit on the number of digits.
PowerOfTwo(base) == base \in {2, 4, 8, 16, 32}

\* What follows the digit loop, which took run characters with n digits:
\* the limit of 4300 digits, then the check that nothing is left over.
DigitLimit(d, base, run, n) ==
    IF BadUnderscore(d, run) THEN Invalid
    ELSE IF ~PowerOfTwo(base) /\ n > 4300 THEN TooManyDigits(n)
    ELSE IF run < Len(d) THEN Invalid
    ELSE ScanDigits(d, base, 0, "", 0)

AfterLoop(d, base, run) == DigitLimit(d, base, run, CountDigits(d, run))

SkipSign(s) == IF s # <<>> /\ Head(s) \in {"+", "-"} THEN Tail(s) ELSE s

HasPrefix(s, base) ==
    base = 16 /\ Len(s) >= 2 /\ s[1] = "0" /\ s[2] \in {"x", "X"}

\* The characters after the prefix and the one underscore that may follow it.
AfterPrefix(t) == IF t # <<>> /\ Head(t) = "_" THEN Tail(t) ELSE t

SkipPrefix(s, base) ==
    IF HasPrefix(s, base) THEN AfterPrefix(SubSeq(s, 3, Len(s))) ELSE s

\* The values v + 1 for which c is a digit of value v in some script.
UnicodeDigit(c) == {v \in 1 .. 10 : c \in UnicodeDecimalDigits[v]}

AsciiDigit(c, vs) ==
    IF vs = {} THEN c
    ELSE <<"0", "1", "2", "3", "4", "5", "6", "7", "8", "9">>[CHOOSE v \in vs : TRUE]

\* _PyUnicode_TransformDecimalAndSpaceToASCII: what int() does to a str
\* before it parses it.
TransformDecimalAndSpaceToASCII(u) ==
    [i \in 1 .. Len(u) |->
       IF IsSpace(u[i]) THEN " " ELSE AsciiDigit(u[i], UnicodeDigit(u[i]))]

\* repr() of a str, as it appears in int()'s ValueError message, one
\* character per element.  The characters of Latin-1 that repr() writes as
\* \xNN (U+0000 .. U+001F but \t, \n, \r; U+007F .. U+00A0; U+00AD), each
\* written raw but U+0000, with the characters of its escape.
HexEscapes ==
    {
     <<"\\x00", <<"\\", "x", "0", "0">>>>, <<"", <<"\\", "x", "0", "1">>>>,
     <<"", <<"\\", "x", "0", "2">>>>, <<"", <<"\\", "x", "0", "3">>>>,
     <<"", <<"\\", "x", "0", "4">>>>, <<"", <<"\\", "x", "0", "5">>>>,
     <<"", <<"\\", "x", "0", "6">>>>, <<"", <<"\\", "x", "0", "7">>>>,
     <<"", <<"\\", "x", "0", "8">>>>, <<"", <<"\\", "x", "0", "b">>>>,
     <<"\f", <<"\\", "x", "0", "c">>>>, <<"", <<"\\", "x", "0", "e">>>>,
     <<"", <<"\\", "x", "0", "f">>>>, <<"", <<"\\", "x", "1", "0">>>>,
     <<"", <<"\\", "x", "1", "1">>>>, <<"", <<"\\", "x", "1", "2">>>>,
     <<"", <<"\\", "x", "1", "3">>>>, <<"", <<"\\", "x", "1", "4">>>>,
     <<"", <<"\\", "x", "1", "5">>>>, <<"", <<"\\", "x", "1", "6">>>>,
     <<"", <<"\\", "x", "1", "7">>>>, <<"", <<"\\", "x", "1", "8">>>>,
     <<"", <<"\\", "x", "1", "9">>>>, <<"", <<"\\", "x", "1", "a">>>>,
     <<"", <<"\\", "x", "1", "b">>>>, <<"", <<"\\", "x", "1", "c">>>>,
     <<"", <<"\\", "x", "1", "d">>>>, <<"", <<"\\", "x", "1", "e">>>>,
     <<"", <<"\\", "x", "1", "f">>>>, <<"", <<"\\", "x", "7", "f">>>>,
     <<"", <<"\\", "x", "8", "0">>>>, <<"", <<"\\", "x", "8", "1">>>>,
     <<"", <<"\\", "x", "8", "2">>>>, <<"", <<"\\", "x", "8", "3">>>>,
     <<"", <<"\\", "x", "8", "4">>>>, <<"", <<"\\", "x", "8", "5">>>>,
     <<"", <<"\\", "x", "8", "6">>>>, <<"", <<"\\", "x", "8", "7">>>>,
     <<"", <<"\\", "x", "8", "8">>>>, <<"", <<"\\", "x", "8", "9">>>>,
     <<"", <<"\\", "x", "8", "a">>>>, <<"", <<"\\", "x", "8", "b">>>>,
     <<"", <<"\\", "x", "8", "c">>>>, <<"", <<"\\", "x", "8", "d">>>>,
     <<"", <<"\\", "x", "8", "e">>>>, <<"", <<"\\", "x", "8", "f">>>>,
     <<"", <<"\\", "x", "9", "0">>>>, <<"", <<"\\", "x", "9", "1">>>>,
     <<"", <<"\\", "x", "9", "2">>>>, <<"", <<"\\", "x", "9", "3">>>>,
     <<"", <<"\\", "x", "9", "4">>>>, <<"", <<"\\", "x", "9", "5">>>>,
     <<"", <<"\\", "x", "9", "6">>>>, <<"", <<"\\", "x", "9", "7">>>>,
     <<"", <<"\\", "x", "9", "8">>>>, <<"", <<"\\", "x", "9", "9">>>>,
     <<"", <<"\\", "x", "9", "a">>>>, <<"", <<"\\", "x", "9", "b">>>>,
     <<"", <<"\\", "x", "9", "c">>>>, <<"", <<"\\", "x", "9", "d">>>>,
     <<"", <<"\\", "x", "9", "e">>>>, <<"", <<"\\", "x", "9", "f">>>>,
     <<" ", <<"\\", "x", "a", "0">>>>, <<"­", <<"\\", "x", "a", "d">>>>
    }

\* The str made of the characters cs[lo .. hi].
RECURSIVE Concat(_, _, _)
Concat(cs, lo, hi) ==
    IF lo > hi THEN ""
    ELSE IF lo = hi THEN cs[lo]
    ELSE Concat(cs, lo, (lo + hi) \div 2) \o Concat(cs, (lo + hi) \div 2 + 1, hi)

\* Format precision: at most the first n characters of cs, as a str.
Precision(cs, n) == Concat(cs, 1, IF Len(cs) < n THEN Len(cs) ELSE n)

Escaped == [c \in {p[1] : p \in HexEscapes} |-> (CHOOSE p \in HexEscapes : p[1] = c)[2]]

\* The code points above U+00FF that repr() escapes, those for which
\* str.isprintable() is false (Unicode 14.0: unassigned, private use,
\* surrogate, format and separator characters), as ranges first, last.
NonPrintableRanges ==
    {
     <<888, 889>>, <<896, 899>>, <<907, 907>>, <<909, 909>>, <<930, 930>>,
     <<1328, 1328>>, <<1367, 1368>>, <<1419, 1420>>, <<1424, 1424>>,
     <<1480, 1487>>, <<1515, 1518>>, <<1525, 1541>>, <<1564, 1564>>,
     <<1757, 1757>>, <<1806, 1807>>, <<1867, 1868>>, <<1970, 1983>>,
     <<2043, 2044>>, <<2094, 2095>>, <<2111, 2111>>, <<2140, 2141>>,
     <<2143, 2143>>, <<2155, 2159>>, <<2191, 2199>>, <<2274, 2274>>,
     <<2436, 2436>>, <<2445, 2446>>, <<2449, 2450>>, <<2473, 2473>>,
     <<2481, 2481>>, <<2483, 2485>>, <<2490, 2491>>, <<2501, 2502>>,
     <<2505, 2506>>, <<2511, 2518>>, <<2520, 2523>>, <<2526, 2526>>,
     <<2532, 2533>>, <<2559, 2560>>, <<2564, 2564>>, <<2571, 2574>>,
     <<2577, 2578>>, <<2601, 2601>>, <<2609, 2609>>, <<2612, 2612>>,
     <<2615, 2615>>, <<2618, 2619>>, <<2621, 2621>>, <<2627, 2630>>,
     <<2633, 2634>>, <<2638, 2640>>, <<2642, 2648>>, <<2653, 2653>>,
     <<2655, 2661>>, <<2679, 2688>>, <<2692, 2692>>, <<2702, 2702>>,
     <<2706, 2706>>, <<2729, 2729>>, <<2737, 2737>>, <<2740, 2740>>,
     <<2746, 2747>>, <<2758, 2758>>, <<2762, 2762>>, <<2766, 2767>>,
     <<2769, 2783>>, <<2788, 2789>>, <<2802, 2808>>, <<2816, 2816>>,
     <<2820, 2820>>, <<2829, 2830>>, <<2833, 2834>>, <<2857, 2857>>,
     <<2865, 2865>>, <<2868, 2868>>, <<2874, 2875>>, <<2885, 2886>>,
     <<2889, 2890>>, <<2894, 2900>>, <<2904, 2907>>, <<2910, 2910>>,
     <<2916, 2917>>, <<2936, 2945>>, <<2948, 2948>>, <<2955, 2957>>,
     <<2961, 2961>>, <<2966, 2968>>, <<2971, 2971>>, <<2973, 2973>>,
     <<2976, 2978>>, <<2981, 2983>>, <<2987, 2989>>, <<3002, 3005>>,
     <<3011, 3013>>, <<3017, 3017>>, <<3022, 3023>>, <<3025, 3030>>,
     <<3032, 3045>>, <<3067, 3071>>, <<3085, 3085>>, <<3089, 3089>>,
     <<3113, 3113>>, <<3130, 3131>>, <<3141, 3141>>, <<3145, 3145>>,
     <<3150, 3156>>, <<3159, 3159>>, <<3163, 3164>>, <<3166, 3167>>,
     <<3172, 3173>>, <<3184, 3190>>, <<3213, 3213>>, <<3217, 3217>>,
     <<3241, 3241>>, <<3252, 3252>>, <<3258, 3259>>, <<3269, 3269>>,
     <<3273, 3273>>, <<3278, 3284>>, <<3287, 3292>>, <<3295, 3295>>,
     <<3300, 3301>>, <<3312, 3312>>, <<3315, 3327>>, <<3341, 3341>>,
     <<3345, 3345>>, <<3397, 3397>>, <<3401, 3401>>, <<3408, 3411>>,
     <<3428, 3429>>, <<3456, 3456>>, <<3460, 3460>>, <<3479, 3481>>,
     <<3506, 3506>>, <<3516, 3516>>, <<3518, 3519>>, <<3527, 3529>>,
     <<3531, 3534>>, <<3541, 3541>>, <<3543, 3543>>, <<3552, 3557>>,
     <<3568, 3569>>, <<3573, 3584>>, <<3643, 3646>>, <<3676, 3712>>,
     <<3715, 3715>>, <<3717, 3717>>, <<3723, 3723>>, <<3748, 3748>>,
     <<3750, 3750>>, <<3774, 3775>>, <<3781, 3781>>, <<3783, 3783>>,
     <<3790, 3791>>, <<3802, 3803>>, <<3808, 3839>>, <<3912, 3912>>,
     <<3949, 3952>>, <<3992, 3992>>, <<4029, 4029>>, <<4045, 4045>>,
     <<4059, 4095>>, <<4294, 4294>>, <<4296, 4300>>, <<4302, 4303>>,
     <<4681, 4681>>, <<4686, 4687>>, <<4695, 4695>>, <<4697, 4697>>,
     <<4702, 4703>>, <<4745, 4745>>, <<4750, 4751>>, <<4785, 4785>>,
     <<4790, 4791>>, <<4799, 4799>>, <<4801, 4801>>, <<4806, 4807>>,
     <<4823, 4823>>, <<4881, 4881>>, <<4886, 4887>>, <<4955, 4956>>,
     <<4989, 4991>>, <<5018, 5023>>, <<5110, 5111>>, <<5118, 5119>>,
     <<5760, 5760>>, <<5789, 5791>>, <<5881, 5887>>, <<5910, 5918>>,
     <<5943, 5951>>, <<5972, 5983>>, <<5997, 5997>>, <<6001, 6001>>,
     <<6004, 6015>>, <<6110, 6111>>, <<6122, 6127>>, <<6138, 6143>>,
     <<6158, 6158>>, <<6170, 6175>>, <<6265, 6271>>, <<6315, 6319>>,
     <<6390, 6399>>, <<6431, 6431>>, <<6444, 6447>>, <<6460, 6463>>,
     <<6465, 6467>>, <<6510, 6511>>, <<6517, 6527>>, <<6572, 6575>>,
     <<6602, 6607>>, <<6619, 6621>>, <<6684, 6685>>, <<6751, 6751>>,
     <<6781, 6782>>, <<6794, 6799>>, <<6810, 6815>>, <<6830, 6831>>,
     <<6863, 6911>>, <<6989, 6991>>, <<7039, 7039>>, <<7156, 7163>>,
     <<7224, 7226>>, <<7242, 7244>>, <<7305, 7311>>, <<7355, 7356>>,
     <<7368, 7375>>, <<7419, 7423>>, <<7958, 7959>>, <<7966, 7967>>,
     <<8006, 8007>>, <<8014, 8015>>, <<8024, 8024>>, <<8026, 8026>>,
     <<8028, 8028>>, <<8030, 8030>>, <<8062, 8063>>, <<8117, 8117>>,
     <<8133, 8133>>, <<8148, 8149>>, <<8156, 8156>>, <<8176, 8177>>,
     <<8181, 8181>>, <<8191, 8207>>, <<8232, 8239>>, <<8287, 8303>>,
     <<8306, 8307>>, <<8335, 8335>>, <<8349, 8351>>, <<8385, 8399>>,
     <<8433, 8447>>, <<8588, 8591>>, <<9255, 9279>>, <<9291, 9311>>,
     <<11124, 11125>>, <<11158, 11158>>, <<11508, 11512>>, <<11558, 11558>>,
     <<11560, 11564>>, <<11566, 11567>>, <<11624, 11630>>, <<11633, 11646>>,
     <<11671, 11679>>, <<11687, 11687>>, <<11695, 11695>>, <<11703, 11703>>,
     <<11711, 11711>>, <<11719, 11719>>, <<11727, 11727>>, <<11735, 11735>>,
     <<11743, 11743>>, <<11870, 11903>>, <<11930, 11930>>, <<12020, 12031>>,
     <<12246, 12271>>, <<12284, 12288>>, <<12352, 12352>>, <<12439, 12440>>,
     <<12544, 12548>>, <<12592, 12592>>, <<12687, 12687>>, <<12772, 12783>>,
     <<12831, 12831>>, <<42125, 42127>>, <<42183, 42191>>, <<42540, 42559>>,
     <<42744, 42751>>, <<42955, 42959>>, <<42962, 42962>>, <<42964, 42964>>,
     <<42970, 42993>>, <<43053, 43055>>, <<43066, 43071>>, <<43128, 43135>>,
     <<43206, 43213>>, <<43226, 43231>>, <<43348, 43358>>, <<43389, 43391>>,
     <<43470, 43470>>, <<43482, 43485>>, <<43519, 43519>>, <<43575, 43583>>,
     <<43598, 43599>>, <<43610, 43611>>, <<43715, 43738>>, <<43767, 43776>>,
     <<43783, 43784>>, <<43791, 43792>>, <<43799, 43807>>, <<43815, 43815>>,
     <<43823, 43823>>, <<43884, 43887>>, <<44014, 44015>>, <<44026, 44031>>,
     <<55204, 55215>>, <<55239, 55242>>, <<55292, 63743>>, <<64110, 64111>>,
     <<64218, 64255>>, <<64263, 64274>>, <<64280, 64284>>, <<64311, 64311>>,
     <<64317, 64317>>, <<64319, 64319>>, <<64322, 64322>>, <<64325, 64325>>,
     <<64451, 64466>>, <<64912, 64913>>, <<64968, 64974>>, <<64976, 65007>>,
     <<65050, 65055>>, <<65107, 65107>>, <<65127, 65127>>, <<65132, 65135>>,
     <<65141, 65141>>, <<65277, 65280>>, <<65471, 65473>>, <<65480, 65481>>,
     <<65488, 65489>>, <<65496, 65497>>, <<65501, 65503>>, <<65511, 65511>>,
     <<65519, 65531>>, <<65534, 65535>>, <<65548, 65548>>, <<65575, 65575>>,
     <<65595, 65595>>, <<65598, 65598>>, <<65614, 65615>>, <<65630, 65663>>,
     <<65787, 65791>>, <<65795, 65798>>, <<65844, 65846>>, <<65935, 65935>>,
     <<65949, 65951>>, <<65953, 65999>>, <<66046, 66175>>, <<66205, 66207>>,
     <<66257, 66271>>, <<66300, 66303>>, <<66340, 66348>>, <<66379, 66383>>,
     <<66427, 66431>>, <<66462, 66462>>, <<66500, 66503>>, <<66518, 66559>>,
     <<66718, 66719>>, <<66730, 66735>>, <<66772, 66775>>, <<66812, 66815>>,
     <<66856, 66863>>, <<66916, 66926>>, <<66939, 66939>>, <<66955, 66955>>,
     <<66963, 66963>>, <<66966, 66966>>, <<66978, 66978>>, <<66994, 66994>>,
     <<67002, 67002>>, <<67005, 67071>>, <<67383, 67391>>, <<67414, 67423>>,
     <<67432, 67455>>, <<67462, 67462>>, <<67505, 67505>>, <<67515, 67583>>,
     <<67590, 67591>>, <<67593, 67593>>, <<67638, 67638>>, <<67641, 67643>>,
     <<67645, 67646>>, <<67670, 67670>>, <<67743, 67750>>, <<67760, 67807>>,
     <<67827, 67827>>, <<67830, 67834>>, <<67868, 67870>>, <<67898, 67902>>,
     <<67904, 67967>>, <<68024, 68027>>, <<68048, 68049>>, <<68100, 68100>>,
     <<68103, 68107>>, <<68116, 68116>>, <<68120, 68120>>, <<68150, 68151>>,
     <<68155, 68158>>, <<68169, 68175>>, <<68185, 68191>>, <<68256, 68287>>,
     <<68327, 68330>>, <<68343, 68351>>, <<68406, 68408>>, <<68438, 68439>>,
     <<68467, 68471>>, <<68498, 68504>>, <<68509, 68520>>, <<68528, 68607>>,
     <<68681, 68735>>, <<68787, 68799>>, <<68851, 68857>>, <<68904, 68911>>,
     <<68922, 69215>>, <<69247, 69247>>, <<69290, 69290>>, <<69294, 69295>>,
     <<69298, 69375>>, <<69416, 69423>>, <<69466, 69487>>, <<69514, 69551>>,
     <<69580, 69599>>, <<69623, 69631>>, <<69710, 69713>>, <<69750, 69758>>,
     <<69821, 69821>>, <<69827, 69839>>, <<69865, 69871>>, <<69882, 69887>>,
     <<69941, 69941>>, <<69960, 69967>>, <<70007, 70015>>, <<70112, 70112>>,
     <<70133, 70143>>, <<70162, 70162>>, <<70207, 70271>>, <<70279, 70279>>,
     <<70281, 70281>>, <<70286, 70286>>, <<70302, 70302>>, <<70314, 70319>>,
     <<70379, 70383>>, <<70394, 70399>>, <<70404, 70404>>, <<70413, 70414>>,
     <<70417, 70418>>, <<70441, 70441>>, <<70449, 70449>>, <<70452, 70452>>,
     <<70458, 70458>>, <<70469, 70470>>, <<70473, 70474>>, <<70478, 70479>>,
     <<70481, 70486>>, <<70488, 70492>>, <<70500, 70501>>, <<70509, 70511>>,
     <<70517, 70655>>, <<70748, 70748>>, <<70754, 70783>>, <<70856, 70863>>,
     <<70874, 71039>>, <<71094, 71095>>, <<71134, 71167>>, <<71237, 71247>>,
     <<71258, 71263>>, <<71277, 71295>>, <<71354, 71359>>, <<71370, 71423>>,
     <<71451, 71452>>, <<71468, 71471>>, <<71495, 71679>>, <<71740, 71839>>,
     <<71923, 71934>>, <<71943, 71944>>, <<71946, 71947>>, <<71956, 71956>>,
     <<71959, 71959>>, <<71990, 71990>>, <<71993, 71994>>, <<72007, 72015>>,
     <<72026, 72095>>, <<72104, 72105>>, <<72152, 72153>>, <<72165, 72191>>,
     <<72264, 72271>>, <<72355, 72367>>, <<72441, 72703>>, <<72713, 72713>>,
     <<72759, 72759>>, <<72774, 72783>>, <<72813, 72815>>, <<72848, 72849>>,
     <<72872, 72872>>, <<72887, 72959>>, <<72967, 72967>>, <<72970, 72970>>,
     <<73015, 73017>>, <<73019, 73019>>, <<73022, 73022>>, <<73032, 73039>>,
     <<73050, 73055>>, <<73062, 73062>>, <<73065, 73065>>, <<73103, 73103>>,
     <<73106, 73106>>, <<73113, 73119>>, <<73130, 73439>>, <<73465, 73647>>,
     <<73649, 73663>>, <<73714, 73726>>, <<74650, 74751>>, <<74863, 74863>>,
     <<74869, 74879>>, <<75076, 77711>>, <<77811, 77823>>, <<78895, 82943>>,
     <<83527, 92159>>, <<92729, 92735>>, <<92767, 92767>>, <<92778, 92781>>,
     <<92863, 92863>>, <<92874, 92879>>, <<92910, 92911>>, <<92918, 92927>>,
     <<92998, 93007>>, <<93018, 93018>>, <<93026, 93026>>, <<93048, 93052>>,
     <<93072, 93759>>, <<93851, 93951>>, <<94027, 94030>>, <<94088, 94094>>,
     <<94112, 94175>>, <<94181, 94191>>, <<94194, 94207>>,
     <<100344, 100351>>, <<101590, 101631>>, <<101641, 110575>>,
     <<110580, 110580>>, <<110588, 110588>>, <<110591, 110591>>,
     <<110883, 110927>>, <<110931, 110947>>, <<110952, 110959>>,
     <<111356, 113663>>, <<113771, 113775>>, <<113789, 113791>>,
     <<113801, 113807>>, <<113818, 113819>>, <<113824, 118527>>,
     <<118574, 118575>>, <<118599, 118607>>, <<118724, 118783>>,
     <<119030, 119039>>, <<119079, 119080>>, <<119155, 119162>>,
     <<119275, 119295>>, <<119366, 119519>>, <<119540, 119551>>,
     <<119639, 119647>>, <<119673, 119807>>, <<119893, 119893>>,
     <<119965, 119965>>, <<119968, 119969>>, <<119971, 119972>>,
     <<119975, 119976>>, <<119981, 119981>>, <<119994, 119994>>,
     <<119996, 119996>>, <<120004, 120004>>, <<120070, 120070>>,
     <<120075, 120076>>, <<120085, 120085>>, <<120093, 120093>>,
     <<120122, 120122>>, <<120127, 120127>>, <<120133, 120133>>,
     <<120135, 120137>>, <<120145, 120145>>, <<120486, 120487>>,
     <<120780, 120781>>, <<121484, 121498>>, <<121504, 121504>>,
     <<121520, 122623>>, <<122655, 122879>>, <<122887, 122887>>,
     <<122905, 122906>>, <<122914, 122914>>, <<122917, 122917>>,
     <<122923, 123135>>, <<123181, 123183>>, <<123198, 123199>>,
     <<123210, 123213>>, <<123216, 123535>>, <<123567, 123583>>,
     <<123642, 123646>>, <<123648, 124895>>, <<124903, 124903>>,
     <<124908, 124908>>, <<124911, 124911>>, <<124927, 124927>>,
     <<125125, 125126>>, <<125143, 125183>>, <<125260, 125263>>,
     <<125274, 125277>>, <<125280, 126064>>, <<126133, 126208>>,
     <<126270, 126463>>, <<126468, 126468>>, <<126496, 126496>>,
     <<126499, 126499>>, <<126501, 126502>>, <<126504, 126504>>,
     <<126515, 126515>>, <<126520, 126520>>, <<126522, 126522>>,
     <<126524, 126529>>, <<126531, 126534>>, <<126536, 126536>>,
     <<126538, 126538>>, <<126540, 126540>>, <<126544, 126544>>,
     <<126547, 126547>>, <<126549, 126550>>, <<126552, 126552>>,
     <<126554, 126554>>, <<126556, 126556>>, <<126558, 126558>>,
     <<126560, 126560>>, <<126563, 126563>>, <<126565, 126566>>,
     <<126571, 126571>>, <<126579, 126579>>, <<126584, 126584>>,
     <<126589, 126589>>, <<126591, 126591>>, <<126602, 126602>>,
     <<126620, 126624>>, <<126628, 126628>>, <<126634, 126634>>,
     <<126652, 126703>>, <<126706, 126975>>, <<127020, 127023>>,
     <<127124, 127135>>, <<127151, 127152>>, <<127168, 127168>>,
     <<127184, 127184>>, <<127222, 127231>>, <<127406, 127461>>,
     <<127491, 127503>>, <<127548, 127551>>, <<127561, 127567>>,
     <<127570, 127583>>, <<127590, 127743>>, <<128728, 128732>>,
     <<128749, 128751>>, <<128765, 128767>>, <<128884, 128895>>,
     <<128985, 128991>>, <<129004, 129007>>, <<129009, 129023>>,
     <<129036, 129039>>, <<129096, 129103>>, <<129114, 129119>>,
     <<129160, 129167>>, <<129198, 129199>>, <<129202, 129279>>,
     <<129620, 129631>>, <<129646, 129647>>, <<129653, 129655>>,
     <<129661, 129663>>, <<129671, 129679>>, <<129709, 129711>>,
     <<129723, 129727>>, <<129734, 129743>>, <<129754, 129759>>,
     <<129768, 129775>>, <<129783, 129791>>, <<129939, 129939>>,
     <<129995, 130031>>, <<130042, 131071>>, <<173792, 173823>>,
     <<177977, 177983>>, <<178206, 178207>>, <<183970, 183983>>,
     <<191457, 194559>>, <<195102, 196607>>, <<201547, 917759>>,
     <<918000, 1114111>>
    }

\* The characters of the element c.
Characters(c) == [i \in 1 .. Len(c) |-> SubSeq(c, i, i)]

\* The value of the hexadecimal digits cs[i], cs[i + 1], ... after acc.
RECURSIVE HexValue(_, _, _)
HexValue(cs, i, acc) ==
    IF i > Len(cs) THEN acc ELSE HexValue(cs, i + 1, acc * 16 + DigitValue(cs[i]))

\* The code point of the character whose escape has the characters cs,
\* \uNNNN or \UNNNNNNNN.
CodePoint(cs) == HexValue(cs, 3, 0)

IsPrintable(cp) == \A r \in NonPrintableRanges : cp < r[1] \/ cp > r[2]

\* repr() of a character above U+00FF, whose element has the characters cs:
\* the character itself when it is printable, else its escape.
ReprElement(c, cs) == IF IsPrintable(CodePoint(cs)) THEN <<c>> ELSE cs

\* repr() of a character that has no escape of its own: a character of
\* Latin-1 (one raw character) is printable.
ReprOther(c) == IF Len(c) = 1 THEN <<c>> ELSE ReprElement(c, Characters(c))

ReprChar(c, quote) ==
    CASE c = "\\" -> <<"\\", "\\">>
      [] c = "\t" -> <<"\\", "t">>
      [] c = "\n" -> <<"\\", "n">>
      [] c = "\r" -> <<"\\", "r">>
      [] c = quote -> <<"\\", c>>
      [] OTHER -> IF c \in DOMAIN Escaped THEN Escaped[c] ELSE ReprOther(c)

\* The characters of the repr of s[lo .. hi] between the quotes.
RECURSIVE ReprBody(_, _, _, _)
ReprBody(s, quote, lo, hi) ==
    IF lo > hi THEN <<>>
    ELSE IF lo = hi THEN ReprChar(s[lo], quote)
    ELSE ReprBody(s, quote, lo, (lo + hi) \div 2)
         \o ReprBody(s, quote, (lo + hi) \div 2 + 1, hi)

Quoted(s, quote) == <<quote>> \o ReprBody(s, quote, 1, Len(s)) \o <<quote>>

PyRepr(s) ==
    Quoted(s, IF (\E i \in 1 .. Len(s) : s[i] = "'")
                 /\ ~(\E i \in 1 .. Len(s) : s[i] = "\"")
              THEN "\"" ELSE "'")

\* [ok |-> TRUE, v |-> n, ...] when the text decodes, [ok |-> FALSE, ...] for
\* ValueError.
Signed(neg, r) == IF r.ok /\ neg THEN IntValue(0 - r.v) ELSE r

Digits(d, base) ==
    IF d # <<>> /\ Head(d) = "_"
    THEN Invalid
    ELSE AfterLoop(d, base, DigitRun(d, base))

ParseStripped(s, base) ==
    Signed(s # <<>> /\ Head(s) = "-", Digits(SkipPrefix(SkipSign(s), base), base))

PyLong_FromString(str, base) == ParseStripped(Strip(str), base)

\* int(u, base) and int(u) for a str u.
PyLong_FromUnicodeObject(u, base) ==
    PyLong_FromString(TransformDecimalAndSpaceToASCII(u), base)

(***************************************************************************)
(* Upstream outcomes.  A Reply is what one requests.post to an RPC         *)
(* endpoint produces: requests.post raises (kind "PostRaises": t is the    *)
(* exception's class, msg its str()), resp.json() raises ("JsonRaises"),   *)
(* the body is a JSON value that is not an object ("NotObject": t is the   *)
(* Python type json gives it), or it is a JSON object ("Object") whose     *)
(* "result" member is missing, null, a string (s), an integer (n), a       *)
(* boolean (n), a finite float (n / d), Infinity, NaN, a list, an object,  *)
(* or the string "0x" followed by 3600 "f" (t = "hugehex").                *)
(***************************************************************************)
Reply(kind, t, s, n, d, msg) ==
    [kind |-> kind, t |-> t, s |-> s, n |-> n, d |-> d, msg |-> msg]

PostRaises(cls, msg) == Reply("PostRaises", cls, <<>>, 0, 1, msg)

JsonRaises(cls, msg) == Reply("JsonRaises", cls, <<>>, 0, 1, msg)

ConnectionErrorReply ==
    PostRaises("ConnectionError", "[Errno 111] Connection refused")

TimeoutReply == PostRaises("Timeout", "Read timed out. (read timeout=3)")

\* The process is interrupted (SIGINT) while requests.post waits.
InterruptReply == PostRaises("KeyboardInterrupt", "")

NotJsonReply ==
    JsonRaises("JSONDecodeError", "Expecting value: line 1 column 1 (char 0)")

\* A body of 100000 "[".
TooDeepReply ==
    JsonRaises("RecursionError",
               "maximum recursion depth exceeded while decoding a JSON array from a unicode string")

NotObjectReply(type) == Reply("NotObject", type, <<>>, 0, 1, "")

NoResultReply == Reply("Object", "missing", <<>>, 0, 1, "")

NullResultReply == Reply("Object", "null", <<>>, 0, 1, "")

StrResultReply(s) == Reply("Object", "str", s, 0, 1, "")

IntResultReply(n) == Reply("Object", "int", <<>>, n, 1, "")

BoolResultReply(b) == Reply("Object", "bool", <<>>, IF b THEN 1 ELSE 0, 1, "")

FloatResultReply(n, d) == Reply("Object", "float", <<>>, n, d, "")

InfResultReply == Reply("Object", "inf", <<>>, 0, 1, "")

NanResultReply == Reply("Object", "nan", <<>>, 0, 1, "")

ListResultReply == Reply("Object", "list", <<>>, 0, 1, "")

DictResultReply == Reply("Object", "dict", <<>>, 0, 1, "")

HugeHexReply == Reply("Object", "hugehex", <<>>, 0, 1, "")

\* The result of HugeHexReply and its repr.
HugeHexText == <<"0", "x">> \o [i \in 1 .. 3600 |-> "f"]

HugeHexRepr == PyRepr(HugeHexText)

(***************************************************************************)
(* fetch_block_height, block_drift_exporter.py:77-86.                      *)
(***************************************************************************)
Returned(v) == [exc |-> "", msg |-> "", ret |-> v]

Raised(e, msg) == [exc |-> e, msg |-> msg, ret |-> None]

\* int() of a float truncates toward zero.
Trunc(n, d) == IF n >= 0 THEN n \div d ELSE 0 - ((0 - n) \div d)

\* int()'s ValueError message; it shows the first 200 characters of the
\* repr of the text (format %.200R).
InvalidLiteral(base, repr) ==
    "invalid literal for int() with base " \o ToString(base) \o ": "
    \o Precision(repr, 200)

\* int()'s ValueError message for a text of n digits, n above the limit.
ExceedsLimit(n) ==
    "Exceeds the limit (4300 digits) for integer string conversion: value has "
    \o ToString(n) \o " digits; use sys.set_int_max_str_digits() to increase the limit"

\* The name Python gives the type of a JSON value.
TypeName(t) == IF t = "null" THEN "NoneType" ELSE t

\* The message of int(result) for the result of HugeHexReply.
HugeHexInvalid == InvalidLiteral(10, HugeHexRepr)

\* int() of the str s, which parsed as p.
DecodeStr(s, base, p) ==
    IF p.ok THEN Returned(Some(p.v))
    ELSE IF p.digits > 0 THEN Raised("ValueError", ExceedsLimit(p.digits))
    ELSE Raised("ValueError", InvalidLiteral(base, PyRepr(s)))

\* int(result, 16) if is_hex else int(result), line 83.
DecodeResult(reply, is_hex) ==
    LET base == IF is_hex THEN 16 ELSE 10 IN
    CASE reply.t = "str" ->
           DecodeStr(reply.s, base, PyLong_FromUnicodeObject(reply.s, base))
      [] reply.t = "hugehex" ->
           IF is_hex THEN Returned(HugeInt)
           ELSE Raised("ValueError", HugeHexInvalid)
      [] OTHER ->
           IF is_hex
           THEN Raised("TypeError", "int() can't convert non-string with explicit base")
           ELSE CASE reply.t \in {"int", "bool"} -> Returned(Some(reply.n))
                  [] reply.t = "float" -> Returned(Some(Trunc(reply.n, reply.d)))
                  [] reply.t = "inf" ->
                       Raised("OverflowError", "cannot convert float infinity to integer")
                  [] reply.t = "nan" ->
                       Raised("ValueError", "cannot convert float NaN to integer")
                  [] OTHER ->
                       Raised("TypeError",
                              "int() argument must be a string, a bytes-like object or a real number, not '"
                                \o TypeName(reply.t) \o "'")

\* The body of the try block, lines 79-83: the value returned or the
\* exception raised inside it.
TryBlock(url, body, is_hex, reply) ==
    CASE reply.kind \in {"PostRaises", "JsonRaises"} -> Raised(reply.t, reply.msg)
      [] reply.kind = "NotObject" ->
           Raised("AttributeError",
                  "'" \o TypeName(reply.t) \o "' object has no attribute 'get'")
      [] OTHER ->
           IF reply.t \in {"missing", "null"}
           THEN Returned(None)
           ELSE DecodeResult(reply, is_hex)

\* "except Exception", line 84: every exception but those of the classes
\* that derive from BaseException and not from Exception.
ExceptException(e) ==
    e \notin {"BaseException", "BaseExceptionGroup", "GeneratorExit",
              "KeyboardInterrupt", "SystemExit", "CancelledError"}

\* A handler that catches only the errors of the requests library.
ExceptRequestException(e) ==
    e \in {"ConnectionError", "Timeout", "JSONDecodeError"}

\* logging.error(f"Failed to fetch block height from {url}: {e}"), line 85.
ErrorLine(url, msg) ==
    [level |-> "ERROR", url |-> url,
     msg |-> "Failed to fetch block height from " \o url \o ": " \o msg]

\* The result of a call: the value returned, the exception that escapes
\* ("" when none does) and the log lines written.
FetchOutcome(url, t, caught) ==
    IF t.exc = ""
    THEN [ret |-> t.ret, raised |-> "", log |-> <<>>]
    ELSE IF caught
         THEN [ret |-> None, raised |-> "", log |-> <<ErrorLine(url, t.msg)>>]
         ELSE [ret |-> None, raised |-> t.exc, log |-> <<>>]

\* The try statement with a handler for the requests library's errors only.
TryExceptRequestException(url, t) ==
    FetchOutcome(url, t, ExceptRequestException(t.exc))

\* The try statement of lines 78-86 around a try block that did t.
TryExcept(url, t) == FetchOutcome(url, t, ExceptException(t.exc))

fetch_block_height_narrow(url, body, is_hex, reply) ==
    TryExceptRequestException(url, TryBlock(url, body, is_hex, reply))

fetch_block_height(url, body, is_hex, reply) ==
    TryExcept(url, TryBlock(url, body, is_hex, reply))

(***************************************************************************)
(* calculate_metrics, block_drift_exporter.py:89-101.  The two fetches of  *)
(* lines 90-91 are steps of the caller's frame (below); this operator is   *)
(* the rest of the function, lines 93-101, applied to what they returned.  *)
(* The text is kept as its lines; OutputText ends every line with "\n".    *)
(***************************************************************************)
GaugeLine(name, chain, value) ==
    name \o "{chain=\"" \o chain \o "\"} " \o ToString(value.v)

ErrorComment(chain) ==
    "# Error: could not retrieve block height for chain '" \o chain \o "'"

\* What lines 93-101 do: the lines of the text returned, or the exception the
\* f-string of lines 97-101 raises when it formats an integer of more than
\* 4300 digits.
Text(lines) == [raised |-> "", msg |-> "", lines |-> lines]

IntMaxStrDigits ==
    [raised |-> "ValueError",
     msg |-> "Exceeds the limit (4300 digits) for integer string conversion; use sys.set_int_max_str_digits() to increase the limit",
     lines |-> <<>>]

Gauges(chain, local_block, remote_block, drift) ==
    IF TooLongForStr(local_block) \/ TooLongForStr(remote_block) \/ TooLongForStr(drift)
    THEN IntMaxStrDigits
    ELSE Text(<<GaugeLine("chain_block_height_local", chain, local_block),
                GaugeLine("chain_block_height_remote", chain, remote_block),
                GaugeLine("chain_block_height_drift", chain, drift)>>)

\* A variant that gives up only when both heights are missing.
calculate_metrics_partial(chain, remote_block, local_block) ==
    IF remote_block.is_none /\ local_block.is_none
    THEN Text(<<ErrorComment(chain)>>)
    ELSE IF remote_block.is_none
    THEN Text(<<GaugeLine("chain_block_height_local", chain, local_block)>>)
    ELSE IF local_block.is_none
    THEN Text(<<GaugeLine("chain_block_height_remote", chain, remote_block)>>)
    ELSE Gauges(chain, local_block, remote_block, Minus(remote_block, local_block))

calculate_metrics(chain, remote_block, local_block) ==
    IF remote_block.is_none \/ local_block.is_none
    THEN Text(<<ErrorComment(chain)>>)
    ELSE Gauges(chain, local_block, remote_block, Minus(remote_block, local_block))

\* The str the function returns: every line followed by "\n".
RECURSIVE OutputText(_)
OutputText(lines) ==
    IF lines = <<>> THEN "" ELSE Head(lines) \o "\n" \o OutputText(Tail(lines))

\* output.strip(), lines 113 and 151: the text without its last "\n" (no
\* line starts or ends with white space).
RECURSIVE StrippedText(_)
StrippedText(lines) ==
    IF lines = <<>> THEN ""
    ELSE IF Len(lines) = 1 THEN Head(lines)
    ELSE Head(lines) \o "\n" \o StrippedText(Tail(lines))

\* logging.info(f"Exported metrics for {args.chain}:\n" + output.strip()).
ExportedLine(chain, lines) ==
    [level |-> "INFO", url |-> "",
     msg |-> "Exported metrics for " \o chain \o ":\n" \o StrippedText(lines)]

(***************************************************************************)
(* The HTTP response of the handler metrics, line 114, and the response    *)
(* Flask gives when the handler raises.                                    *)
(***************************************************************************)
NoResponse == [status |-> 0, mimetype |-> "", body |-> ""]

\* werkzeug's InternalServerError page, which Flask sends for an exception
\* a view function does not handle.
InternalServerError ==
    [status |-> 500, mimetype |-> "text/html",
     body |-> "<!doctype html>\n<html lang=en>\n<title>500 Internal Server Error</title>\n"
              \o "<h1>Internal Server Error</h1>\n"
              \o "<p>The server encountered an internal error and was unable to complete your request. "
              \o "Either the server is overloaded or there is an error in the application.</p>\n"]

\* Flask's log_exception: the line it logs before it answers 500.
ExceptionLine ==
    [level |-> "ERROR", url |-> "", msg |-> "Exception on /metrics [GET]"]

Response(lines) ==
    [status |-> 200, mimetype |-> "text/plain", body |-> OutputText(lines) \o "\n"]

(***************************************************************************)
(* main, lines 128-136: the override of the selected chain's URLs.  config *)
(* is the registry's own entry (line 132 aliases it), so the assignments   *)
(* change CHAIN_CONFIGS itself.                                            *)
(***************************************************************************)
\* A variant that stores --remote under "local" and --local under "remote".
main_override_swapped(configs, chain, remote, local) ==
    LET c1 == IF Truthy(remote)
              THEN [configs EXCEPT ![chain].local = remote.s] ELSE configs
    IN  IF Truthy(local) THEN [c1 EXCEPT ![chain].remote = local.s] ELSE c1

main_override(configs, chain, remote, local) ==
    LET c1 == IF Truthy(remote)
              THEN [configs EXCEPT ![chain].remote = remote.s] ELSE configs
    IN  IF Truthy(local) THEN [c1 EXCEPT ![chain].local = local.s] ELSE c1

\* json.dumps(..., separators=(",", ":"), sort_keys=True) of a JSON-RPC body
\* and of a chain's entry, line 117.  The URLs of the model hold no
\* character that JSON escapes.
JsonBody(body) ==
    "{\"id\":" \o ToString(body.id) \o ",\"jsonrpc\":\"" \o body.jsonrpc
    \o "\",\"method\":\"" \o body.method \o "\""
    \o (IF "params" \in DOMAIN body THEN ",\"params\":[]" ELSE "") \o "}"

JsonConfig(cfg) ==
    "{\"is_hex\":" \o (IF cfg.is_hex THEN "true" ELSE "false")
    \o ",\"jsonrpc_body\":" \o JsonBody(cfg.jsonrpc_body)
    \o ",\"local\":\"" \o cfg.local \o "\",\"remote\":\"" \o cfg.remote \o "\"}"

\* dump_config, lines 116-117.
dump_config(configs, chain) ==
    [level |-> "INFO", url |-> "",
     msg |-> "Effective config: " \o JsonConfig(configs[chain])]

\* --port, line 124: type=int, default 9100.  A value int() rejects is a
\* usage error.
PortNotGiven == [given |-> FALSE, s |-> <<>>]

PortGiven(s) == [given |-> TRUE, s |-> s]

ParsePort(opt) ==
    IF opt.given THEN PyLong_FromUnicodeObject(opt.s, 10) ELSE IntValue(9100)

(***************************************************************************)
(* State.                                                                  *)
(*   CHAIN_CONFIGS  the registry (module global, lines 19-74)              *)
(*   args           the parsed command line (global, line 129)             *)
(*   main_pc        where main is: start, exit2 (usage error), serving,    *)
(*                  oneshot, exit, crashed                                 *)
(*   main_log       the log lines main wrote                               *)
(*   app_run        the call app.run(host, port) of line 142               *)
(*   frame          one activation of calculate_metrics per caller: frame  *)
(*                  0 is main's own call (lines 144-151), frame r >= 1 the *)
(*                  r-th GET /metrics the server handles (lines 104-114)   *)
(*   f_pc, f_args, f_out   a single call of fetch_block_height on its own  *)
(***************************************************************************)
VARIABLES CHAIN_CONFIGS, args, main_pc, main_log, app_run, frame, f_pc, f_args, f_out

vars == <<CHAIN_CONFIGS, args, main_pc, main_log, app_run, frame, f_pc, f_args, f_out>>

Chains == DOMAIN DEFAULT_CHAIN_CONFIGS

\* The chains tried on the command line: the decimal chain, a hexadecimal
\* chain, and a name that is not among the choices.
ChainChoices == {"sol", "eth", "btc"}

\* Values of --port tried: not given, a port, and a text that is no integer.
PortOptions == {PortNotGiven, PortGiven(<<"8", "0", "8", "0">>), PortGiven(<<"x">>)}

Frames == 0 .. MaxRequests

Handlers == 1 .. MaxRequests

\* Values of --remote and --local tried together: neither given, one given,
\* one given empty with the other given a URL, both given a URL.
OverrideOptions ==
    {<<NotGiven, NotGiven>>,
     <<Given("http://remote.example:8545"), NotGiven>>,
     <<Given(""), Given("http://local.example:8545")>>,
     <<Given("http://remote.example:8545"), Given("")>>,
     <<Given("http://remote.example:8545"), Given("http://local.example:8545")>>}

\* What an upstream answers to a POST of the running program.
Replies ==
    {ConnectionErrorReply, HugeHexReply,
     StrResultReply(<<"0">>), StrResultReply(<<"1", "0">>)}

NoArgs == [chain |-> "", serve |-> FALSE, port |-> 0, remote |-> NotGiven,
           local |-> NotGiven]

NoAppRun == [called |-> FALSE, host |-> "", port |-> 0]

NoCall == [chain |-> "", local_url |-> "", remote_url |-> "", body |-> SolBody,
           is_hex |-> FALSE]

IdleFrame ==
    [pc |-> "idle", concurrent |-> FALSE, call |-> NoCall, posts |-> <<>>,
     seen |-> <<>>, remote_block |-> None, local_block |-> None,
     output |-> <<>>, response |-> NoResponse, log |-> <<>>, raised |-> ""]

NoFetchArgs == [url |-> "", body |-> SolBody, is_hex |-> FALSE, reply |-> NoResultReply]

NoFetchOut == [ret |-> None, raised |-> "", log |-> <<>>]

\* config, the global of line 132: the selected chain's entry of the registry.
config == CHAIN_CONFIGS[args.chain]

\* requests.post(url, headers={"Content-Type": "application/json"}, json=body,
\* timeout=3), line 79, as the request it sends.
Post(url, body) ==
    [url |-> url, content_type |-> "application/json", json |-> body, timeout |-> 3]

(***************************************************************************)
(* Steps of one activation of calculate_metrics.                           *)
(***************************************************************************)
\* The call of lines 106-112 / 144-150: the arguments are read from args
\* and config when the call is made.
BeginCall(f, chain, cfg) ==
    [f EXCEPT !.call = [chain |-> chain, local_url |-> cfg.local,
                        remote_url |-> cfg.remote, body |-> cfg.jsonrpc_body,
                        is_hex |-> cfg.is_hex]]

\* Line 90 as far as line 79: fetch_block_height(remote_url, body, is_hex)
\* is called and sends its POST; the caller waits for the answer.
PostRemote(f) ==
    [f EXCEPT !.pc = "remote_sent",
              !.posts = Append(@, Post(f.call.remote_url, f.call.body))]

\* The frame after the remote fetch did out; the text is returned at once
\* when it failed.
RemoteFetched_shortcut(f, reply, out) ==
    [f EXCEPT !.pc = IF out.raised # "" THEN "raised"
                     ELSE IF out.ret.is_none THEN "computed" ELSE "fetch_local",
              !.seen = Append(@, reply),
              !.remote_block = out.ret,
              !.output = IF out.raised = "" /\ out.ret.is_none
                         THEN <<ErrorComment(f.call.chain)>> ELSE @,
              !.log = @ \o out.log,
              !.raised = out.raised]

\* The frame after the remote fetch did out.
RemoteFetched(f, reply, out) ==
    [f EXCEPT !.pc = IF out.raised = "" THEN "fetch_local" ELSE "raised",
              !.seen = Append(@, reply),
              !.remote_block = out.ret,
              !.log = @ \o out.log,
              !.raised = out.raised]

\* A variant that returns the error line at once when the remote fetch failed.
FetchRemoteStep_shortcut(f, reply) ==
    RemoteFetched_shortcut(
       f, reply, fetch_block_height(f.call.remote_url, f.call.body, f.call.is_hex, reply))

\* Line 90 from the answer on: the rest of fetch_block_height, lines 80-86,
\* and the assignment to remote_block.
FetchRemoteStep(f, reply) ==
    RemoteFetched(
       f, reply, fetch_block_height(f.call.remote_url, f.call.body, f.call.is_hex, reply))

\* Line 91 as far as line 79: fetch_block_height(local_url, body, is_hex) is
\* called and sends its POST, unless the call is over already.
PostLocal(f) ==
    IF f.pc = "fetch_local"
    THEN [f EXCEPT !.pc = "local_sent",
                   !.posts = Append(@, Post(f.call.local_url, f.call.body))]
    ELSE f

\* The frame after the local fetch did out and lines 93-101 did text.
Computed(f, reply, out, text) ==
    LET exc == IF out.raised # "" THEN out.raised ELSE text.raised
    IN  [f EXCEPT !.pc = IF exc = "" THEN "computed" ELSE "raised",
                  !.seen = Append(@, reply),
                  !.local_block = out.ret,
                  !.output = IF exc = "" THEN text.lines ELSE @,
                  !.log = @ \o out.log,
                  !.raised = exc]

\* The frame after the local fetch did out: lines 93-101 follow.
LocalFetched(f, reply, out) ==
    Computed(f, reply, out, calculate_metrics(f.call.chain, f.remote_block, out.ret))

\* Lines 91-101 from the answer on: the rest of fetch_block_height, the
\* assignment to local_block, then the text.
FetchLocalStep(f, reply) ==
    LocalFetched(
       f, reply, fetch_block_height(f.call.local_url, f.call.body, f.call.is_hex, reply))

\* The rest of the handler metrics once calculate_metrics is over, lines
\* 113-114; an exception that escaped it makes Flask answer 500.
Reply200(f) ==
    IF f.pc = "computed"
    THEN [f EXCEPT !.pc = "done",
                   !.log = Append(@, ExportedLine(f.call.chain, f.output)),
                   !.response = Response(f.output)]
    ELSE IF f.pc = "raised"
         THEN [f EXCEPT !.pc = "done",
                        !.log = Append(@, ExceptionLine),
                        !.response = InternalServerError]
         ELSE f

\* The rest of main's one-shot path, line 151.
LogOnly(f) ==
    IF f.pc = "computed"
    THEN [f EXCEPT !.pc = "done",
                   !.log = Append(@, ExportedLine(f.call.chain, f.output))]
    ELSE f

(***************************************************************************)
(* Actions of the program.                                                 *)
(***************************************************************************)
Init ==
    /\ CHAIN_CONFIGS = DEFAULT_CHAIN_CONFIGS
    /\ args = NoArgs
    /\ main_pc = "start"
    /\ main_log = <<>>
    /\ app_run = NoAppRun
    /\ frame = [r \in Frames |-> IdleFrame]
    /\ f_pc = "unused"
    /\ f_args = NoFetchArgs
    /\ f_out = NoFetchOut

\* The command lines parse_args accepts, lines 120-129.
ValidArgs(chain, port) == chain \in Chains /\ port.ok

\* main, lines 119-129, on a command line parse_args rejects: argparse
\* prints the usage and exits with status 2; nothing else is done.
MainUsageError ==
    /\ main_pc = "start"
    /\ \E chain \in ChainChoices, port \in PortOptions :
         ~ValidArgs(chain, ParsePort(port))
    /\ main_pc' = "exit2"
    /\ UNCHANGED <<CHAIN_CONFIGS, args, main_log, app_run, frame, f_pc, f_args, f_out>>

\* main, lines 129-142, once parse_args has accepted the command line.
Parsed(chain, serve, port, remote, local, bound) ==
    LET configs == main_override(CHAIN_CONFIGS, chain, remote, local)
    IN  /\ ValidArgs(chain, port)
        /\ args' = [chain |-> chain, serve |-> serve, port |-> port.v,
                    remote |-> remote, local |-> local]
        /\ CHAIN_CONFIGS' = configs
        /\ main_log' =
             <<dump_config(configs, chain)>>
             \o (IF serve
                 THEN <<[level |-> "INFO", url |-> "",
                         msg |-> "Starting HTTP server for " \o chain
                                 \o " on :" \o ToString(port.v)]>>
                 ELSE <<>>)
        /\ app_run' = IF serve
                      THEN [called |-> TRUE, host |-> "0.0.0.0", port |-> port.v]
                      ELSE app_run
        /\ main_pc' = IF serve THEN (IF bound THEN "serving" ELSE "crashed")
                      ELSE "oneshot"

\* main, lines 119-142: parse the command line, override the URLs, log the
\* effective config, then serve or go on to the one-shot call.  app.run
\* either binds the port and serves, or raises (the port is taken) and main
\* ends with the exception.
Main ==
    /\ main_pc = "start"
    /\ \E chain \in ChainChoices, serve \in BOOLEAN, port \in PortOptions,
          override \in OverrideOptions, bound \in BOOLEAN :
         /\ serve \/ bound
         /\ Parsed(chain, serve, ParsePort(port), override[1], override[2], bound)
    /\ UNCHANGED <<frame, f_pc, f_args, f_out>>

\* Frame f waits for the answer to a POST it sent.
Waiting(f) == f.pc \in {"remote_sent", "local_sent"}

\* Some other handler is inside calculate_metrics.
OthersInFlight(r) == \E q \in Handlers \ {r} : Waiting(frame[q])

\* The frames when handler r's frame g writes its remote height over the
\* one every request in flight holds.
Shared(r, g) ==
    [q \in Frames |->
       IF q = r THEN g
       ELSE IF frame[q].pc = "local_sent"
            THEN [frame[q] EXCEPT !.remote_block = g.remote_block]
            ELSE frame[q]]

\* Handler r's frame g with the remote height of the first request in place
\* of its own.
Cached(r, g) ==
    IF r > 1 /\ g.pc = "local_sent" /\ Len(frame[1].seen) > 0
    THEN [g EXCEPT !.remote_block = frame[1].remote_block]
    ELSE g

\* GET /metrics reaches handler r, lines 104-112, 90 and 79: the handler
\* calls calculate_metrics, which calls fetch_block_height, which sends the
\* POST to the remote URL and waits.  Requests are numbered in the order
\* they arrive; the server handles each in a thread of its own.
MetricsCall(r) ==
    /\ main_pc = "serving"
    /\ frame[r].pc = "idle"
    /\ r = 1 \/ frame[r - 1].pc # "idle"
    /\ frame' = [frame EXCEPT ![r] =
                   PostRemote(BeginCall([@ EXCEPT !.concurrent = OthersInFlight(r)],
                                        args.chain, config))]
    /\ UNCHANGED <<CHAIN_CONFIGS, args, main_pc, main_log, app_run, f_pc, f_args, f_out>>

\* A variant that keeps the remote height in one place for all handlers:
\* the fetch of one request overwrites the value a request in flight holds.
MetricsRemote_shared(r) ==
    /\ main_pc = "serving"
    /\ frame[r].pc = "remote_sent"
    /\ \E reply \in Replies :
         frame' = Shared(r, Reply200(PostLocal(FetchRemoteStep(frame[r], reply))))
    /\ UNCHANGED <<CHAIN_CONFIGS, args, main_pc, main_log, app_run, f_pc, f_args, f_out>>

\* A variant that fetches the remote height once and reuses it afterwards.
MetricsRemote_cached(r) ==
    /\ main_pc = "serving"
    /\ frame[r].pc = "remote_sent"
    /\ \E reply \in Replies :
         frame' = [frame EXCEPT ![r] =
                     Cached(r, Reply200(PostLocal(FetchRemoteStep(@, reply))))]
    /\ UNCHANGED <<CHAIN_CONFIGS, args, main_pc, main_log, app_run, f_pc, f_args, f_out>>

\* The answer to handler r's remote POST arrives (or the POST fails), lines
\* 79-86, 90, 91 and 79: fetch_block_height returns, remote_block is
\* assigned, and the POST to the local URL is sent.
MetricsRemote(r) ==
    /\ main_pc = "serving"
    /\ frame[r].pc = "remote_sent"
    /\ \E reply \in Replies :
         frame' = [frame EXCEPT ![r] =
                     Reply200(PostLocal(FetchRemoteStep(@, reply)))]
    /\ UNCHANGED <<CHAIN_CONFIGS, args, main_pc, main_log, app_run, f_pc, f_args, f_out>>

\* The answer to handler r's local POST arrives (or the POST fails), lines
\* 79-86, 91-101 and 113-114: fetch_block_height returns, the text is
\* computed, the handler logs it and responds.
MetricsLocal(r) ==
    /\ main_pc = "serving"
    /\ frame[r].pc = "local_sent"
    /\ \E reply \in Replies :
         frame' = [frame EXCEPT ![r] = Reply200(FetchLocalStep(@, reply))]
    /\ UNCHANGED <<CHAIN_CONFIGS, args, main_pc, main_log, app_run, f_pc, f_args, f_out>>

\* main's own call got as far as frame g: main goes on, returns (the process
\* exits), or ends with the exception the call raised.
OneShot(g) ==
    /\ frame' = [frame EXCEPT ![0] = g]
    /\ main_pc' = CASE g.pc = "raised" -> "crashed"
                    [] g.pc = "done" -> "exit"
                    [] OTHER -> "oneshot"

\* One-shot mode, lines 144-150, 90 and 79: main calls calculate_metrics
\* itself; the POST to the remote URL is sent.
OneShotCall ==
    /\ main_pc = "oneshot"
    /\ frame[0].pc = "idle"
    /\ OneShot(PostRemote(BeginCall(frame[0], args.chain, config)))
    /\ UNCHANGED <<CHAIN_CONFIGS, args, main_log, app_run, f_pc, f_args, f_out>>

\* One-shot mode, lines 79-86, 90, 91 and 79: the remote answer, then the
\* POST to the local URL.
OneShotRemote ==
    /\ main_pc = "oneshot"
    /\ frame[0].pc = "remote_sent"
    /\ \E reply \in Replies :
         OneShot(LogOnly(PostLocal(FetchRemoteStep(frame[0], reply))))
    /\ UNCHANGED <<CHAIN_CONFIGS, args, main_log, app_run, f_pc, f_args, f_out>>

\* One-shot mode, lines 79-86, 91-101 and 151: the local answer, the text,
\* the log line; main returns and the process exits.
OneShotLocal ==
    /\ main_pc = "oneshot"
    /\ frame[0].pc = "local_sent"
    /\ \E reply \in Replies :
         OneShot(LogOnly(FetchLocalStep(frame[0], reply)))
    /\ UNCHANGED <<CHAIN_CONFIGS, args, main_log, app_run, f_pc, f_args, f_out>>

Next ==
    \/ MainUsageError
    \/ Main
    \/ \E r \in Handlers : MetricsCall(r)
    \/ \E r \in Handlers : MetricsRemote(r)
    \/ \E r \in Handlers : MetricsLocal(r)
    \/ OneShotCall
    \/ OneShotRemote
    \/ OneShotLocal

Spec == Init /\ [][Next]_vars

(***************************************************************************)
(* fetch_block_height on its own: one call on every input of FetchInit.    *)
(***************************************************************************)
FetchAlphabet == {"-", "0", "x", "1", "f", "_", "\f"}

\* The outcomes that carry no string.
PlainReplies ==
    {ConnectionErrorReply, TimeoutReply, NotJsonReply, TooDeepReply,
     NotObjectReply("list"), NotObjectReply("str"), NotObjectReply("NoneType"),
     NoResultReply, NullResultReply, ListResultReply, DictResultReply,
     BoolResultReply(TRUE), BoolResultReply(FALSE),
     IntResultReply(0), IntResultReply(16), IntResultReply(-5),
     FloatResultReply(5, 2), FloatResultReply(-5, 2), FloatResultReply(1000, 1),
     InfResultReply, NanResultReply, HugeHexReply, InterruptReply}

\* The arguments of a call for chain c's registry entry.
FetchArgs(c, reply) ==
    [url |-> DEFAULT_CHAIN_CONFIGS[c].remote,
     body |-> DEFAULT_CHAIN_CONFIGS[c].jsonrpc_body,
     is_hex |-> DEFAULT_CHAIN_CONFIGS[c].is_hex,
     reply |-> reply]

\* Results with spaces and digits above U+00FF: the Arabic-Indic digits one
\* and zero between an em space and an ideographic space, "0x" with a fullwidth 1
\* and "f", and a fullwidth "a", which is no digit.
UnicodeResults ==
    {<<"\\u2003", "\\u0661", "\\u0660", "\\u3000">>,
     <<"0", "x", "\\uff11", "f">>,
     <<"\\uff41">>}

\* Results with quotes, which decide the quotes of the repr.
QuoteResults == {<<"'">>, <<"\"">>, <<"1", "'">>, <<"'", "\"">>, <<"\\", "'">>}

\* Results longer than the 200 characters int()'s message shows of a repr:
\* 198 "x" (a repr of 200 characters), 199 "x", 250 "x", and 100 times a
\* form feed and a quote (a repr of 602 characters).
LongResults ==
    {[i \in 1 .. 198 |-> "x"], [i \in 1 .. 199 |-> "x"], [i \in 1 .. 250 |-> "x"],
     [i \in 1 .. 200 |-> IF i % 2 = 1 THEN "\f" ELSE "'"]}

\* 4301 digits, one more than int() converts in base 10.
TooManyOnes == [i \in 1 .. 4301 |-> "1"]

\* Decimal results of more than 4300 digits: the digits alone; with a sign,
\* spaces around and a character that is no digit after them; and after a
\* character that is no digit.
TooLongResults ==
    {TooManyOnes,
     <<" ", "-">> \o TooManyOnes \o <<"x", " ">>,
     <<"x">> \o TooManyOnes}

\* Every plain outcome, every string result of at most MaxLen characters
\* over FetchAlphabet and the results of UnicodeResults, QuoteResults and
\* LongResults, for a decimal and for a hexadecimal chain; the results of
\* TooLongResults for a decimal chain.
FetchInit ==
    /\ CHAIN_CONFIGS = DEFAULT_CHAIN_CONFIGS
    /\ args = NoArgs
    /\ main_pc = "start"
    /\ main_log = <<>>
    /\ app_run = NoAppRun
    /\ frame = [r \in Frames |-> IdleFrame]
    /\ f_pc = "call"
    /\ \/ \E c \in {"sol", "eth"} :
            \/ \E reply \in PlainReplies : f_args = FetchArgs(c, reply)
            \/ \E s \in UnicodeResults \cup QuoteResults \cup LongResults :
                 f_args = FetchArgs(c, StrResultReply(s))
            \/ \E n \in 0 .. MaxLen : \E s \in [1 .. n -> FetchAlphabet] :
                 f_args = FetchArgs(c, StrResultReply(s))
       \/ \E s \in TooLongResults : f_args = FetchArgs("sol", StrResultReply(s))
    /\ f_out = NoFetchOut

FetchCall ==
    /\ f_pc = "call"
    /\ f_out' = fetch_block_height(f_args.url, f_args.body, f_args.is_hex, f_args.reply)
    /\ f_pc' = "returned"
    /\ UNCHANGED <<CHAIN_CONFIGS, args, main_pc, main_log, app_run, frame, f_args>>

FetchNext == FetchCall

SpecFetch == FetchInit /\ [][FetchNext]_vars

(***************************************************************************)
(* Properties.  The expected texts are written out here, independently of  *)
(* the operators above.                                                    *)
(***************************************************************************)
ExpectedGauges(c, l, r) ==
    "chain_block_height_local{chain=\"" \o c \o "\"} " \o ToString(l) \o "\n"
    \o "chain_block_height_remote{chain=\"" \o c \o "\"} " \o ToString(r) \o "\n"
    \o "chain_block_height_drift{chain=\"" \o c \o "\"} " \o ToString(r - l) \o "\n"

ExpectedError(c) ==
    "# Error: could not retrieve block height for chain '" \o c \o "'\n"

\* The height an upstream answer of Replies stands for, None when it is a
\* failure: "0" is 0, "10" is sixteen in base 16 and ten in base 10, and
\* "0x" with 3600 "f" is a height in base 16 only.
AnsweredHeight(reply, is_hex) ==
    CASE reply = StrResultReply(<<"0">>) -> Some(0)
      [] reply = StrResultReply(<<"1", "0">>) -> Some(IF is_hex THEN 16 ELSE 10)
      [] reply = HugeHexReply /\ is_hex -> HugeInt
      [] OTHER -> None

BothPresent(f) == ~f.remote_block.is_none /\ ~f.local_block.is_none

\* The call of calculate_metrics in frame f is over: it returned ("computed",
\* then "done") or raised.
CallOver(f) == f.pc \in {"computed", "done", "raised"}

\* C1: whenever both fetches of a call returned a height (height 0 and
\* remote < local included), calculate_metrics returns exactly the three
\* gauge lines local, remote, drift, in this order, each labelled with the
\* chain, with the values local, remote and remote - local.
C1_ThreeGaugeLines ==
    \A r \in Frames :
       (CallOver(frame[r]) /\ BothPresent(frame[r])) =>
          /\ frame[r].raised = ""
          /\ Len(frame[r].output) = 3
          /\ OutputText(frame[r].output) =
               ExpectedGauges(frame[r].call.chain, frame[r].local_block.v,
                              frame[r].remote_block.v)

\* C2: whenever at least one of the two fetches returned None, the text is
\* exactly the one error comment line; gauge lines appear only when both
\* heights are present.
C2_ErrorLineOnly ==
    \A r \in Frames :
       CallOver(frame[r]) =>
          /\ ~BothPresent(frame[r]) =>
               /\ frame[r].raised = ""
               /\ Len(frame[r].output) = 1
               /\ OutputText(frame[r].output) = ExpectedError(frame[r].call.chain)
          /\ OutputText(frame[r].output) # ExpectedError(frame[r].call.chain) =>
               BothPresent(frame[r])

\* C2 witness: the remote fetch gave 16, the local fetch failed.
C2_Witness ==
    \E r \in Frames :
       /\ frame[r].pc = "done"
       /\ frame[r].remote_block = Some(16)
       /\ frame[r].local_block.is_none
       /\ frame[r].output =
            <<"# Error: could not retrieve block height for chain 'eth'">>

\* C3: every GET /metrics is answered 200, text/plain, with the metrics text
\* of that request plus one "\n", whatever the two fetches did; no exception
\* leaves the handler.
C3_Always200 ==
    \A r \in Handlers :
       frame[r].pc = "done" =>
          /\ frame[r].raised = ""
          /\ frame[r].response.status = 200
          /\ frame[r].response.mimetype = "text/plain"
          /\ frame[r].response.body = OutputText(frame[r].output) \o "\n"
          /\ ~BothPresent(frame[r]) =>
               frame[r].response.body = ExpectedError(frame[r].call.chain) \o "\n"

\* The request of frame f was answered with a metrics text.
Answered(f) == f.pc = "done" /\ f.response.status = 200

\* The body a request must get for the two answers it received itself.
OwnBody(f) ==
    LET rh == AnsweredHeight(f.seen[1], f.call.is_hex)
        lh == AnsweredHeight(f.seen[2], f.call.is_hex)
    IN  IF rh.is_none \/ lh.is_none
        THEN ExpectedError(f.call.chain) \o "\n"
        ELSE ExpectedGauges(f.call.chain, lh.v, rh.v) \o "\n"

\* C4: every request makes its own two fetches, and every response that
\* carries a metrics text shows the heights of the two answers received
\* during that same request; nothing of an earlier request is reused.
C4_FreshFetches ==
    \A r \in Handlers :
       /\ frame[r].pc = "done" => Len(frame[r].seen) = 2
       /\ Answered(frame[r]) => frame[r].response.body = OwnBody(frame[r])

\* C4 witness: two scrapes one after the other, the upstream answers changed
\* in between, and the second response shows the second answers.
C4_Witness ==
    /\ frame[1].pc = "done"
    /\ frame[2].pc = "done"
    /\ ~frame[2].concurrent
    /\ frame[1].seen = <<StrResultReply(<<"1", "0">>), StrResultReply(<<"1", "0">>)>>
    /\ frame[2].seen = <<StrResultReply(<<"0">>), StrResultReply(<<"1", "0">>)>>
    /\ frame[2].response.body = ExpectedGauges("eth", 16, 0) \o "\n"
    /\ frame[1].response.body = ExpectedGauges("eth", 16, 16) \o "\n"

\* fetch_block_height has returned or raised.
FetchDone == f_pc = "returned"

\* The result member of the reply is there and decodes in the chain's base.
Decodes(reply, is_hex) ==
    /\ reply.kind = "Object"
    /\ \/ reply.t = "str"
            /\ PyLong_FromUnicodeObject(reply.s, IF is_hex THEN 16 ELSE 10).ok
       \/ reply.t = "hugehex" /\ is_hex
       \/ reply.t \in {"int", "bool", "float"} /\ ~is_hex

\* What the request came to: every reply but the interrupt of the process.
RequestOutcome(reply) == reply # InterruptReply

\* C5: fetch_block_height never raises to its caller, whatever the request
\* came to: a transport error, a timeout, a body that is not JSON, JSON that
\* is not an object, a missing result and a result that does not decode all
\* give None, and an integer is returned only for a result that is present
\* and decodes.  Only an interrupt of the process passes through.
C5_NeverRaises ==
    FetchDone =>
       IF RequestOutcome(f_args.reply)
       THEN /\ f_out.raised = ""
            /\ ~Decodes(f_args.reply, f_args.is_hex) => f_out.ret.is_none
            /\ ~f_out.ret.is_none => Decodes(f_args.reply, f_args.is_hex)
       ELSE f_out.raised = "KeyboardInterrupt" /\ f_out.log = <<>>

\* C5 witness: the result "0x10" of a decimal chain does not decode; the
\* call returned None and raised nothing.
C5_Witness ==
    /\ FetchDone
    /\ f_args.reply = StrResultReply(<<"0", "x", "1", "0">>)
    /\ ~f_args.is_hex
    /\ f_out.ret.is_none
    /\ f_out.raised = ""

\* C6: every call that returns None writes exactly one log line, naming the
\* URL, whatever the cause, and a call that returns a height writes none.
C6_OneLogLinePerFailure ==
    (FetchDone /\ f_out.raised = "") =>
       IF f_out.ret.is_none
       THEN Len(f_out.log) = 1 /\ f_out.log[1].url = f_args.url
       ELSE f_out.log = <<>>

\* C9: every value fetch_block_height returns is None or a non-negative
\* integer, for every result an upstream can send.
C9_NonNegativeHeight ==
    (FetchDone /\ f_out.raised = "") => (f_out.ret.is_none \/ (f_out.ret.v >= 0 /\ f_out.ret.huge >= 0))

\* The registry default of the selected chain.
DefaultConfig == DEFAULT_CHAIN_CONFIGS[args.chain]

\* What main leaves untouched, and the URLs the fetches go to.
C7_Frame ==
    /\ \A c \in Chains :
          /\ CHAIN_CONFIGS[c].is_hex = DEFAULT_CHAIN_CONFIGS[c].is_hex
          /\ CHAIN_CONFIGS[c].jsonrpc_body = DEFAULT_CHAIN_CONFIGS[c].jsonrpc_body
          /\ c # args.chain => CHAIN_CONFIGS[c] = DEFAULT_CHAIN_CONFIGS[c]
    /\ \A r \in Frames : \A i \in 1 .. Len(frame[r].posts) :
          /\ frame[r].posts[i].url = IF i = 1 THEN config.remote ELSE config.local
          /\ frame[r].posts[i].json = DefaultConfig.jsonrpc_body

\* C7 as stated: an option that is given sets its URL, an option that is not
\* given leaves the registry default; is_hex and the body are unchanged and
\* every later fetch uses the resulting URLs.
C7_Original ==
    main_pc \notin {"start", "exit2"} =>
       /\ C7_Frame
       /\ config.remote = IF args.remote.given THEN args.remote.s
                          ELSE DefaultConfig.remote
       /\ config.local = IF args.local.given THEN args.local.s
                         ELSE DefaultConfig.local

\* C7 amended: an option given with a non-empty value sets its URL; an
\* option that is not given, or is given as the empty string, leaves the
\* registry default; is_hex and the body are unchanged and every later fetch
\* uses the resulting URLs.
C7_OverrideOnlyUrls ==
    main_pc \notin {"start", "exit2"} =>
       /\ C7_Frame
       /\ config.remote = IF args.remote.given /\ args.remote.s # ""
                          THEN args.remote.s ELSE DefaultConfig.remote
       /\ config.local = IF args.local.given /\ args.local.s # ""
                         THEN args.local.s ELSE DefaultConfig.local

\* C7 witness: --remote and --local are both given a URL; a call has made
\* both fetches, the first to the given remote URL and the second to the
\* given local URL, with the chain's own base and body.
C7_Witness ==
    \E r \in Frames :
       /\ args.chain = "eth"
       /\ args.remote = Given("http://remote.example:8545")
       /\ args.local = Given("http://local.example:8545")
       /\ frame[r].pc = "done"
       /\ frame[r].posts[1].url = "http://remote.example:8545"
       /\ frame[r].posts[2].url = "http://local.example:8545"
       /\ frame[r].posts[2].json = EvmBody
       /\ config.is_hex

\* C8: every call of calculate_metrics issues exactly two fetches, the
\* remote one and then the local one, each once: the local POST is sent
\* only after the remote fetch is over, and when the call is over two POSTs
\* were sent and two answers taken, also when the remote fetch failed.
C8_TwoFetchesInOrder ==
    \A r \in Frames :
       /\ frame[r].pc = "idle" => frame[r].posts = <<>>
       /\ frame[r].pc = "remote_sent" =>
            /\ Len(frame[r].posts) = 1
            /\ frame[r].seen = <<>>
            /\ frame[r].posts[1].url = config.remote
       /\ frame[r].pc = "local_sent" =>
            /\ Len(frame[r].posts) = 2
            /\ Len(frame[r].seen) = 1
            /\ frame[r].posts[1].url = config.remote
            /\ frame[r].posts[2].url = config.local
       /\ CallOver(frame[r]) =>
            /\ Len(frame[r].posts) = 2
            /\ Len(frame[r].seen) = 2
            /\ frame[r].posts[1].url = config.remote
            /\ frame[r].posts[2].url = config.local

\* C8 witness: the remote fetch failed and the local fetch was still made.
C8_Witness ==
    \E r \in Frames :
       /\ frame[r].pc = "done"
       /\ frame[r].seen[1] = ConnectionErrorReply
       /\ frame[r].remote_block.is_none
       /\ Len(frame[r].posts) = 2
       /\ frame[r].posts[2].url = "http://127.0.0.1:8899"

\* C10: with requests handled concurrently, each request holds and answers
\* with the heights of its own two fetches only: the remote height it holds
\* between its fetches is its own, and the drift it reports is its own
\* remote height minus its own local height.
C10_OwnHeightsOnly ==
    \A r \in Handlers :
       /\ frame[r].pc \in {"local_sent", "done"} =>
            frame[r].remote_block = AnsweredHeight(frame[r].seen[1], frame[r].call.is_hex)
       /\ frame[r].pc = "done" =>
            frame[r].local_block = AnsweredHeight(frame[r].seen[2], frame[r].call.is_hex)
       /\ (Answered(frame[r]) /\ BothPresent(frame[r])) =>
                 frame[r].output[3] =
                    "chain_block_height_drift{chain=\"" \o frame[r].call.chain \o "\"} "
                    \o ToString(AnsweredHeight(frame[r].seen[1], frame[r].call.is_hex).v
                                - AnsweredHeight(frame[r].seen[2], frame[r].call.is_hex).v)

\* C10 witness: request 2 arrived while request 1 was waiting for an
\* answer, the two got different remote heights, and both were answered.
C10_Witness ==
    /\ frame[1].pc = "done"
    /\ frame[2].pc = "done"
    /\ frame[2].concurrent
    /\ frame[1].seen = <<StrResultReply(<<"1", "0">>), StrResultReply(<<"0">>)>>
    /\ frame[2].seen = <<StrResultReply(<<"0">>), StrResultReply(<<"1", "0">>)>>
    /\ frame[1].output[3] = "chain_block_height_drift{chain=\"sol\"} 10"
    /\ frame[2].output[3] = "chain_block_height_drift{chain=\"sol\"} -10"

====
